---- MODULE Spec2Model ----
(***************************************************************************)
(* A model of bec_qthemes' hover-gradient decoration                       *)
(* (src/bec_qthemes/_hover_gradient.py) and of its Material icon engine    *)
(* (src/bec_qthemes/_icon/material_icons.py).                              *)
(*                                                                         *)
(* Representation.  Python floats are kept exact in fixed point: an        *)
(* opacity multiplier is given in tenths (10 is 1.0), an alpha value in    *)
(* hundredths (25500 is 255.0) and a gradient radius in tenths of a pixel. *)
(* A style text is a sequence of tokens: B is the literal word             *)
(* border-radius, then a colon, a blank (one whitespace character), the    *)
(* digits 0 and 4, and a semicolon for any other character.  A QPoint is   *)
(* the pair of its x and y.                                                *)
(* The dynamic attributes stapled on a widget are a function from         *)
(* attribute names to values whose domain is the set of attributes set.    *)
(***************************************************************************)
EXTENDS Integers, Sequences, FiniteSets, TLC

VARIABLES
    life,           \* widget -> "unborn" | "live" | "dead"
    attrs,          \* widget -> its dynamic attributes (_hg_enabled, _hg_pos, ...)
    paintEvent,     \* widget -> the patched_paint closures wrapped around its paint routine
    filters,        \* _HoverGradientFilter objects: <<widget, n>> -> [_target, deleteLater]
    eventFilters,   \* widget -> the filter objects installed on it
    mouseTracking,  \* widget -> hasMouseTracking()
    styledBackground, \* widget -> WA_StyledBackground
    extractCalls,   \* widget -> number of _extract_border_radius calls made for it
    last,           \* the operation that ran last, with what it did
    styleIn,        \* SpecRadius: the style texts given to _extract_border_radius
    styleOut,       \* SpecRadius: what it returned
    iconCache,      \* lru_cache of _material_icons / _material_icons_filled
    diskReads,      \* number of reads of each icon file
    palette,        \* QGuiApplication.palette(): text and disabled text colour
    handle          \* the QIcon returned last, with its engine (<<>>: none yet)

vars == <<life, attrs, paintEvent, filters, eventFilters, mouseTracking,
          styledBackground, extractCalls, last, styleIn, styleOut,
          iconCache, diskReads, palette, handle>>

iconVars == <<iconCache, diskReads, palette, handle>>

hoverVars == <<life, attrs, paintEvent, filters, eventFilters, mouseTracking,
               styledBackground, extractCalls>>

(***************************************************************************)
(* Bounds of the model.                                                    *)
(***************************************************************************)
\* The screen is the grid 0..MaxX by 0..MaxY of global pointer positions.
MaxX == 2
MaxY == 1
\* _extract_border_radius calls counted per widget (the code makes one).
MaxExtractCalls == 2
\* Most fragments in a widget-local and in an application-wide style text (SpecRadius).
MaxLocalFrags == 2
MaxAppFrags == 2

(***************************************************************************)
(* The widget tree of the scenario: widget 1 is a top-level window, 2 is   *)
(* a child of 1 placed at a non-zero offset, 3 is a child of 2 that is     *)
(* constructed later (AddChild).                                           *)
(***************************************************************************)
Widgets == {1, 2, 3}

Parent(w) == CASE w = 1 -> 0 [] w = 2 -> 1 [] w = 3 -> 2

\* Position of a widget in its parent (of a window: on the screen).
Offset(w) == CASE w = 1 -> <<1, 0>> [] w = 2 -> <<1, 0>> [] w = 3 -> <<0, 0>>

Width(w) == CASE w = 1 -> 2 [] w = 2 -> 1 [] w = 3 -> 1

Height(w) == CASE w = 1 -> 1 [] w = 2 -> 1 [] w = 3 -> 1

GlobalPoints == (0..MaxX) \X (0..MaxY)

RECURSIVE GlobalOrigin(_)
GlobalOrigin(w) ==
    IF Parent(w) = 0 THEN Offset(w)
    ELSE LET o == GlobalOrigin(Parent(w))
         IN  <<o[1] + Offset(w)[1], o[2] + Offset(w)[2]>>

\* QWidget.mapFromGlobal
MapFromGlobal(w, g) == <<g[1] - GlobalOrigin(w)[1], g[2] - GlobalOrigin(w)[2]>>

\* QWidget.rect().contains(p)
RectContains(w, p) == /\ 0 <= p[1] /\ p[1] < Width(w)
                      /\ 0 <= p[2] /\ p[2] < Height(w)

RECURSIVE IsDescendant(_, _)
IsDescendant(d, w) ==
    /\ Parent(d) # 0
    /\ (Parent(d) = w \/ IsDescendant(Parent(d), w))

Max(a, b) == IF a >= b THEN a ELSE b

(***************************************************************************)
(* Python attribute access on a widget.                                    *)
(***************************************************************************)
NoAttrs == <<>>

HasAttr(a, name) == name \in DOMAIN a

GetAttr(a, name, default) == IF name \in DOMAIN a THEN a[name] ELSE default

SetAttr(a, name, v) ==
    [n \in (DOMAIN a) \cup {name} |-> IF n = name THEN v ELSE a[n]]

(***************************************************************************)
(* _extract_border_radius: re.findall of                                   *)
(*     border-radius\s*:\s*([0-9]+)                                        *)
(* over the widget's style text, then over the application's.              *)
(***************************************************************************)
IsSpace(c) == c = " "

IsDigit(c) == c \in {"0", "4"}

DigitValue(c) == IF c = "4" THEN 4 ELSE 0

\* \s* from position i: the first position that holds no whitespace.
RECURSIVE SkipSpaces(_, _)
SkipSpaces(t, i) ==
    IF i <= Len(t) /\ IsSpace(t[i]) THEN SkipSpaces(t, i + 1) ELSE i

\* [0-9]+ from position i, greedy: the first position that holds no digit.
RECURSIVE SkipDigits(_, _)
SkipDigits(t, i) ==
    IF i <= Len(t) /\ IsDigit(t[i]) THEN SkipDigits(t, i + 1) ELSE i

\* The pattern tried at position i: [matched, group, next position].
MatchAt(t, i) ==
    LET c == SkipSpaces(t, i + 1)
        d == IF c <= Len(t) THEN SkipSpaces(t, c + 1) ELSE c
        e == SkipDigits(t, d)
    IN  IF /\ t[i] = "B"
           /\ c <= Len(t) /\ t[c] = ":"
           /\ e > d
        THEN [matched |-> TRUE, group |-> SubSeq(t, d, e - 1), next |-> e]
        ELSE [matched |-> FALSE, group |-> <<>>, next |-> i + 1]

\* re.findall: the groups of the leftmost non-overlapping matches, in order.
RECURSIVE FindAllFrom(_, _)
FindAllFrom(t, i) ==
    IF i > Len(t) THEN <<>>
    ELSE LET m == MatchAt(t, i)
         IN  IF m.matched THEN <<m.group>> \o FindAllFrom(t, m.next)
             ELSE FindAllFrom(t, m.next)

FindAll(t) == FindAllFrom(t, 1)

\* int() of a string of decimal digits.
RECURSIVE ParseInt(_)
ParseInt(ds) ==
    IF ds = <<>> THEN 0
    ELSE 10 * ParseInt(SubSeq(ds, 1, Len(ds) - 1)) + DigitValue(ds[Len(ds)])

\* Mutant: the first match of a source is taken, not the last.
RECURSIVE FirstSourceRadius_FirstMatch(_)
FirstSourceRadius_FirstMatch(sources) ==
    IF sources = <<>> THEN 0
    ELSE LET matches == FindAll(Head(sources))
         IN  IF matches # <<>> THEN ParseInt(matches[1])
             ELSE FirstSourceRadius_FirstMatch(Tail(sources))

\* The loop over sources (lines 100-106): the first source with a match decides.
RECURSIVE FirstSourceRadius(_)
FirstSourceRadius(sources) ==
    IF sources = <<>> THEN 0
    ELSE LET matches == FindAll(Head(sources))
         IN  IF matches # <<>> THEN ParseInt(matches[Len(matches)])
             ELSE FirstSourceRadius(Tail(sources))

\* local is widget.styleSheet(); appSheets is <<app.styleSheet()>>, or <<>> when
\* QApplication.instance() is None.
ExtractBorderRadius(local, appSheets) == FirstSourceRadius(<<local>> \o appSheets)

(***************************************************************************)
(* Colours.  QColor(c) is the colour named c, opaque; setAlpha replaces    *)
(* its alpha (in hundredths).                                              *)
(***************************************************************************)
QColor(c) == [name |-> c, alpha |-> 25500]

Transparent == [name |-> "transparent", alpha |-> 0]

SetAlpha(colour, alpha) == [colour EXCEPT !.alpha = alpha]

(***************************************************************************)
(* _draw_hover_gradient(widget, painter, path, opacity): the painter calls *)
(* it makes, as a sequence (empty when it returns early).  a is the        *)
(* widget's attributes.                                                    *)
(***************************************************************************)
\* Mutant: the factors of the pressed and the unpressed gradient radius swapped.
DrawHoverGradient_Swapped(w, a, path, opacity) ==
    IF ~GetAttr(a, "_hg_hover", FALSE) \/ a["_hg_pos"][1] < 0 THEN <<>>
    ELSE LET pressed == GetAttr(a, "_hg_pressed", FALSE)
             colours == GetAttr(a, "_hg_cols", <<QColor("#ffffff")>>)
             accent  == colours[1]
             radius  == Max(Width(w), Height(w)) * (IF pressed THEN 9 ELSE 6)
             centre  == SetAlpha(accent, IF pressed THEN opacity
                                         ELSE (opacity * 6) \div 10)
             edge    == IF Len(colours) > 1 THEN colours[2] ELSE Transparent
         IN  <<[op |-> "fillPath", path |-> path, centre |-> a["_hg_pos"],
                radius |-> radius, stop0 |-> centre, stop1 |-> edge]>>

\* Mutant: the early return tests the stored position only, not _hg_hover.
DrawHoverGradient_PosOnly(w, a, path, opacity) ==
    IF a["_hg_pos"][1] < 0 THEN <<>>
    ELSE LET pressed == GetAttr(a, "_hg_pressed", FALSE)
             colours == GetAttr(a, "_hg_cols", <<QColor("#ffffff")>>)
             accent  == colours[1]
             radius  == Max(Width(w), Height(w)) * (IF pressed THEN 6 ELSE 9)
             centre  == SetAlpha(accent, IF pressed THEN opacity
                                         ELSE (opacity * 6) \div 10)
             edge    == IF Len(colours) > 1 THEN colours[2] ELSE Transparent
         IN  <<[op |-> "fillPath", path |-> path, centre |-> a["_hg_pos"],
                radius |-> radius, stop0 |-> centre, stop1 |-> edge]>>

DrawHoverGradient(w, a, path, opacity) ==
    IF ~GetAttr(a, "_hg_hover", FALSE) \/ a["_hg_pos"][1] < 0 THEN <<>>
    ELSE LET pressed == GetAttr(a, "_hg_pressed", FALSE)
             colours == GetAttr(a, "_hg_cols", <<QColor("#ffffff")>>)
             accent  == colours[1]
             radius  == Max(Width(w), Height(w)) * (IF pressed THEN 6 ELSE 9)
             centre  == SetAlpha(accent, IF pressed THEN opacity
                                         ELSE (opacity * 6) \div 10)
             edge    == IF Len(colours) > 1 THEN colours[2] ELSE Transparent
         IN  <<[op |-> "fillPath", path |-> path, centre |-> a["_hg_pos"],
                radius |-> radius, stop0 |-> centre, stop1 |-> edge]>>

\* Mutant: a truthiness test (if not radius), which takes a cached 0 for no radius.
RadiusUncached_Falsy(a) == ~HasAttr(a, "_hg_radius") \/ a["_hg_radius"] = 0

\* The radius test of patched_paint (line 145): no radius cached yet.
RadiusUncached(a) == ~HasAttr(a, "_hg_radius")

\* Mutant: the overlay is composed first and the original routine draws over it.
PatchedPaintOrder_OverlayFirst(original, overlay) == overlay \o original

\* The order of patched_paint (lines 140-155): original_paint(event) runs to its end,
\* then the painter is opened and the overlay is composed.
PatchedPaintOrder(original, overlay) == original \o overlay

(***************************************************************************)
(* One call of the widget's paintEvent.  layers are the patched_paint      *)
(* closures around the widget's own routine, innermost first; each holds   *)
(* the opacity it captured; event is the QPaintEvent.  Gives the           *)
(* attributes afterwards, the draw calls in order and the number of        *)
(* _extract_border_radius calls.                                           *)
(***************************************************************************)
RECURSIVE RunPaint(_, _, _, _, _, _)
RunPaint(layers, w, a, local, appSheets, event) ==
    IF layers = <<>>
    THEN [a |-> a, trace |-> <<[op |-> "original_paint", event |-> event]>>,
          calls |-> 0]
    ELSE LET inner   == RunPaint(SubSeq(layers, 1, Len(layers) - 1), w, a,
                                 local, appSheets, event)
             opacity == layers[Len(layers)].opacity
             resolve == RadiusUncached(inner.a)
             radius  == IF resolve THEN ExtractBorderRadius(local, appSheets)
                        ELSE inner.a["_hg_radius"]
             a2      == IF resolve THEN SetAttr(inner.a, "_hg_radius", radius)
                        ELSE inner.a
             path    == [shape |-> IF radius > 0 THEN "roundedRect" ELSE "rect",
                         width |-> Width(w) - 1, height |-> Height(w) - 1,
                         radius |-> IF radius > 0 THEN radius ELSE 0]
         IN  [a |-> a2,
              trace |-> PatchedPaintOrder(inner.trace,
                            <<[op |-> "overlay", path |-> path]>>
                                \o DrawHoverGradient(w, a2, path, opacity)),
              calls |-> inner.calls + (IF resolve THEN 1 ELSE 0)]

(***************************************************************************)
(* enable_hover_gradient(widget, colours, opacity)                         *)
(***************************************************************************)
\* colours: None, one colour string, or a list of colour strings (lines 126-132).
NormaliseColours(colours) ==
    LET names == CASE colours.kind = "None" -> <<"#ffffff">>
                   [] colours.kind = "str"  -> <<colours.v>>
                   [] colours.kind = "list" -> colours.v
    IN  [i \in 1..Len(names) |-> QColor(names[i])]

\* opacity = 255 * opacity (line 125); the multiplier is in tenths.
AlphaCeiling(opacity) == 255 * opacity * 10

\* Mutant: the marker is never found, every call decorates again.
AlreadyEnabled_NoMarker(a) == FALSE

\* The marker test (line 122).
AlreadyEnabled(a) == GetAttr(a, "_hg_enabled", FALSE)

NoTarget == 0

\* Mutant: only the direct children are found and there is no recursion.
FindChildren_DirectOnly(w) == {d \in Widgets : life[d] = "live" /\ Parent(d) = w}

\* widget.findChildren(QWidget): the widgets below w that exist now.
FindChildren(w) == {d \in Widgets : life[d] = "live" /\ IsDescendant(d, w)}

NewFilterId(w) == <<w, Cardinality({f \in DOMAIN filters : f[1] = w}) + 1>>

\* The arguments tried: every shape of colours, opacities inside and outside [0, 1].
EnableArgs ==
    { [colours |-> [kind |-> "None"], opacity |-> 10],
      [colours |-> [kind |-> "str", v |-> "#aa0000"], opacity |-> 5],
      [colours |-> [kind |-> "list", v |-> <<"#aa0000">>], opacity |-> -5],
      [colours |-> [kind |-> "list", v |-> <<"#aa0000", "#0000bb">>], opacity |-> 20] }

EnableHoverGradient(w, colours, opacity) ==
    /\ life[w] = "live"
    /\ IF AlreadyEnabled(attrs[w])
       THEN /\ UNCHANGED hoverVars
            /\ last' = [op |-> "enable", w |-> w, first |-> FALSE,
                        colours |-> colours, opacity |-> opacity]
       ELSE LET a1 == SetAttr(attrs[w], "_hg_enabled", TRUE)
                a2 == SetAttr(a1, "_hg_cols", NormaliseColours(colours))
                a3 == SetAttr(a2, "_hg_hover", FALSE)
                a4 == SetAttr(a3, "_hg_pressed", FALSE)
                a5 == SetAttr(a4, "_hg_pos", <<-1, -1>>)
                a6 == SetAttr(a5, "_hg_orig_paint", paintEvent[w])
                f  == NewFilterId(w)
                a7 == SetAttr(a6, "_hg_filter", f)
                below == FindChildren(w)
            IN  /\ attrs' = [attrs EXCEPT ![w] = a7]
                /\ paintEvent' = [paintEvent EXCEPT
                       ![w] = Append(@, [opacity |-> AlphaCeiling(opacity)])]
                /\ filters' = [g \in (DOMAIN filters) \cup {f} |->
                       IF g = f THEN [_target |-> w, deleteLater |-> FALSE]
                       ELSE filters[g]]
                /\ eventFilters' = [d \in Widgets |->
                       IF d = w \/ d \in below THEN eventFilters[d] \cup {f}
                       ELSE eventFilters[d]]
                /\ mouseTracking' = [d \in Widgets |->
                       (d = w \/ d \in below) \/ mouseTracking[d]]
                /\ styledBackground' = [styledBackground EXCEPT ![w] = TRUE]
                /\ UNCHANGED <<life, extractCalls>>
                /\ last' = [op |-> "enable", w |-> w, first |-> TRUE,
                            colours |-> colours, opacity |-> opacity]
    /\ UNCHANGED <<styleIn, styleOut, iconVars>>

(***************************************************************************)
(* _HoverGradientFilter                                                    *)
(***************************************************************************)
EventTypes == {"MouseMove", "Enter", "Leave", "MouseButtonPress",
               "MouseButtonRelease", "Other"}

\* The events whose pointer position the handler or the toolkit's delivery rule reads.
PositionedTypes == {"MouseMove", "Enter", "Leave"}

\* An event: its type and, for the positioned types, the pointer's global position.
Events == [type : PositionedTypes, g : GlobalPoints]
            \cup [type : EventTypes \ PositionedTypes]

\* event.pos(): the pointer in the coordinates of the widget that receives the event.
EventPos(watched, ev) == MapFromGlobal(watched, ev.g)

\* What the toolkit delivers to a live widget: Enter with the pointer inside it,
\* Leave with the pointer outside it, motion anywhere (the pointer is grabbed
\* while a button is down).
Conformant(watched, ev) ==
    CASE ev.type = "Enter" -> RectContains(watched, EventPos(watched, ev))
      [] ev.type = "Leave" -> ~RectContains(watched, EventPos(watched, ev))
      [] OTHER -> TRUE

\* The live-reference check (line 34).
TargetGone(f) == filters[f]._target = NoTarget

\* Mutant: the event is reported as handled.
QObjectEventFilter_Consumes == TRUE

\* QObject.eventFilter, the base implementation (line 64).
QObjectEventFilter == FALSE

\* Mutant: _hg_hover is set only together with a changed position.
HandleEvent_HoverWithPos(target, a, watched, ev) ==
    CASE ev.type = "MouseMove" ->
           LET pos    == MapFromGlobal(target, ev.g)
               inside == RectContains(target, pos)
           IN  IF inside
               THEN IF pos # GetAttr(a, "_hg_pos", <<0, 0>>)
                    THEN [a |-> SetAttr(SetAttr(a, "_hg_pos", pos), "_hg_hover", TRUE),
                          updates |-> 1]
                    ELSE [a |-> a, updates |-> 0]
               ELSE IF GetAttr(a, "_hg_hover", FALSE)
                    THEN [a |-> SetAttr(a, "_hg_hover", FALSE), updates |-> 1]
                    ELSE [a |-> a, updates |-> 0]
      [] ev.type = "Enter" ->
           [a |-> SetAttr(SetAttr(a, "_hg_hover", TRUE), "_hg_pos",
                          EventPos(watched, ev)),
            updates |-> 1]
      [] ev.type = "Leave" ->
           [a |-> SetAttr(a, "_hg_hover", FALSE), updates |-> 1]
      [] ev.type = "MouseButtonPress" ->
           [a |-> SetAttr(a, "_hg_pressed", TRUE), updates |-> 1]
      [] ev.type = "MouseButtonRelease" ->
           [a |-> SetAttr(a, "_hg_pressed", FALSE), updates |-> 1]
      [] OTHER -> [a |-> a, updates |-> 0]

\* Lines 37-62 on the target's attributes a: [a, updates], updates being the number
\* of target.update() calls.
HandleEvent(target, a, watched, ev) ==
    CASE ev.type = "MouseMove" ->
           LET pos    == MapFromGlobal(target, ev.g)
               inside == RectContains(target, pos)
           IN  IF inside
               THEN IF pos # GetAttr(a, "_hg_pos", <<0, 0>>)
                    THEN [a |-> SetAttr(SetAttr(a, "_hg_pos", pos), "_hg_hover", TRUE),
                          updates |-> 1]
                    ELSE [a |-> SetAttr(a, "_hg_hover", TRUE), updates |-> 0]
               ELSE IF GetAttr(a, "_hg_hover", FALSE)
                    THEN [a |-> SetAttr(a, "_hg_hover", FALSE), updates |-> 1]
                    ELSE [a |-> a, updates |-> 0]
      [] ev.type = "Enter" ->
           [a |-> SetAttr(SetAttr(a, "_hg_hover", TRUE), "_hg_pos",
                          EventPos(watched, ev)),
            updates |-> 1]
      [] ev.type = "Leave" ->
           [a |-> SetAttr(a, "_hg_hover", FALSE), updates |-> 1]
      [] ev.type = "MouseButtonPress" ->
           [a |-> SetAttr(a, "_hg_pressed", TRUE), updates |-> 1]
      [] ev.type = "MouseButtonRelease" ->
           [a |-> SetAttr(a, "_hg_pressed", FALSE), updates |-> 1]
      [] OTHER -> [a |-> a, updates |-> 0]

\* Mutant: the state of the widget that received the event is written and repainted.
WrittenWidget_Watched(flt, watched) == watched

\* The widget whose attributes eventFilter writes and whose update() it calls: the
\* filter's own target (line 37), whatever widget is watched.
WrittenWidget(flt, watched) == flt._target

\* eventFilter(watched, event) of filter f.  The toolkit calls it for the events of
\* the objects f is installed on; events queued before a teardown still arrive.
EventFilter(f, watched, ev) ==
    /\ f \in DOMAIN filters
    /\ f \in eventFilters[watched]
    /\ \/ life[watched] = "live" /\ Conformant(watched, ev)
       \/ life[watched] = "dead" /\ life[f[1]] = "dead"
    /\ IF TargetGone(f)
       THEN /\ UNCHANGED attrs
            /\ last' = [op |-> "eventFilter", f |-> f, watched |-> watched,
                        ev |-> ev, updates |-> 0, repainted |-> {},
                        raised |-> FALSE, ret |-> FALSE]
       ELSE IF filters[f]._target = NoTarget /\ ev.type # "Other"
       THEN \* past the check with target None: target.rect(), target._hg_hover = ...
            \* or target.update() raises AttributeError
            /\ UNCHANGED attrs
            /\ last' = [op |-> "eventFilter", f |-> f, watched |-> watched,
                        ev |-> ev, updates |-> 0, repainted |-> {},
                        raised |-> TRUE]
       ELSE LET target == WrittenWidget(filters[f], watched)
                r      == IF target = NoTarget THEN [a |-> <<>>, updates |-> 0]
                          ELSE HandleEvent(target, attrs[target], watched, ev)
            IN  /\ attrs' = IF target = NoTarget THEN attrs
                            ELSE [attrs EXCEPT ![target] = r.a]
                /\ last' = [op |-> "eventFilter", f |-> f, watched |-> watched,
                            ev |-> ev, updates |-> r.updates,
                            repainted |-> IF r.updates > 0 THEN {target} ELSE {},
                            raised |-> FALSE, ret |-> QObjectEventFilter]
    /\ UNCHANGED <<life, paintEvent, filters, eventFilters, mouseTracking,
                   styledBackground, extractCalls, styleIn, styleOut, iconVars>>

\* Mutant: the disposal is scheduled, the back-reference is kept.
OnDead_KeepsTarget(flt) == [flt EXCEPT !.deleteLater = TRUE]

\* _on_dead (lines 21-24): drop the back-reference, schedule the disposal.
OnDead(flt) == [flt EXCEPT !._target = NoTarget, !.deleteLater = TRUE]

\* The toolkit destroys live widget w with everything below it; each destroyed
\* widget emits destroyed(), which runs the _on_dead of the filter made for it.
DestroyWidget(w) ==
    /\ life[w] = "live"
    /\ LET gone == {w} \cup FindChildren(w)
       IN  /\ life' = [d \in Widgets |-> IF d \in gone THEN "dead" ELSE life[d]]
           /\ filters' = [f \in DOMAIN filters |->
                  IF filters[f]._target \in gone THEN OnDead(filters[f])
                  ELSE filters[f]]
    /\ last' = [op |-> "destroy", w |-> w]
    /\ UNCHANGED <<attrs, paintEvent, eventFilters, mouseTracking,
                   styledBackground, extractCalls, styleIn, styleOut, iconVars>>

\* The destruction notification handled once more by filter f.
OnDeadAgain(f) ==
    /\ f \in DOMAIN filters
    /\ life[f[1]] = "dead"
    /\ filters' = [filters EXCEPT ![f] = OnDead(@)]
    /\ last' = [op |-> "on_dead", f |-> f]
    /\ UNCHANGED <<life, attrs, paintEvent, eventFilters, mouseTracking,
                   styledBackground, extractCalls, styleIn, styleOut, iconVars>>

\* The host constructs widget w under its live parent.
AddChild(w) ==
    /\ life[w] = "unborn"
    /\ Parent(w) # 0
    /\ life[Parent(w)] = "live"
    /\ life' = [life EXCEPT ![w] = "live"]
    /\ last' = [op |-> "addChild", w |-> w]
    /\ UNCHANGED <<attrs, paintEvent, filters, eventFilters, mouseTracking,
                   styledBackground, extractCalls, styleIn, styleOut, iconVars>>

\* The toolkit delivers an event to a live widget on which no filter is installed:
\* installEventFilter (lines 30 and 162) was never called for it, so no eventFilter
\* runs.
DeliverUnfiltered(watched, ev) ==
    /\ life[watched] = "live"
    /\ eventFilters[watched] = {}
    /\ Conformant(watched, ev)
    /\ last' = [op |-> "deliver", w |-> watched, ev |-> ev]
    /\ UNCHANGED <<hoverVars, styleIn, styleOut, iconVars>>

\* The style texts the host has set when a paint happens.  The program only reads
\* them, so each paint may find any of these.
PaintTexts == { <<>>, <<"B", ":", "4">> }

\* The QPaintEvent the toolkit makes for a paint of w: the region to repaint.
PaintEventOf(w) == [type |-> "Paint", region |-> <<0, 0, Width(w), Height(w)>>]

\* The toolkit's paint dispatch calls w.paintEvent; local and app are the widget's
\* and the application's style text at that moment.
Paint(w, local, app) ==
    /\ life[w] = "live"
    /\ extractCalls[w] < MaxExtractCalls
    /\ LET event == PaintEventOf(w)
           r == RunPaint(paintEvent[w], w, attrs[w], local, <<app>>, event)
       IN  /\ attrs' = [attrs EXCEPT ![w] = r.a]
           /\ extractCalls' = [extractCalls EXCEPT ![w] = @ + r.calls]
           /\ last' = [op |-> "paint", w |-> w, trace |-> r.trace,
                       local |-> local, app |-> app, event |-> event]
    /\ UNCHANGED <<life, paintEvent, filters, eventFilters, mouseTracking,
                   styledBackground, styleIn, styleOut, iconVars>>

\* The icon engine before its first use.
IconsIdle ==
    /\ iconCache = [outline |-> <<>>, filled |-> <<>>]
    /\ diskReads = [outline |-> 0, filled |-> 0]
    /\ palette = [text |-> <<16, 16, 16, 255>>, disabled |-> <<128, 128, 128, 255>>]
    /\ handle = <<>>

(***************************************************************************)
(* Spec: the hover decoration of the three widgets.                        *)
(***************************************************************************)
\* The widget a caller decorates: the window, with its children below it.
Decorated == {1}

Init ==
    /\ life = [w \in Widgets |-> IF w = 3 THEN "unborn" ELSE "live"]
    /\ attrs = [w \in Widgets |-> NoAttrs]
    /\ paintEvent = [w \in Widgets |-> <<>>]
    /\ filters = <<>>
    /\ eventFilters = [w \in Widgets |-> {}]
    /\ mouseTracking = [w \in Widgets |-> FALSE]
    /\ styledBackground = [w \in Widgets |-> FALSE]
    /\ extractCalls = [w \in Widgets |-> 0]
    /\ last = [op |-> "init"]
    /\ styleIn = [local |-> <<>>, appSheets |-> <<>>]
    /\ styleOut = [called |-> FALSE, radius |-> 0]
    /\ IconsIdle

Next ==
    \/ \E w \in Decorated, args \in EnableArgs :
           EnableHoverGradient(w, args.colours, args.opacity)
    \/ \E f \in DOMAIN filters, watched \in Widgets, ev \in Events :
           EventFilter(f, watched, ev)
    \/ \E w \in Widgets : DestroyWidget(w)
    \/ \E f \in DOMAIN filters : OnDeadAgain(f)
    \/ \E w \in Widgets : AddChild(w)
    \/ \E watched \in Widgets, ev \in Events : DeliverUnfiltered(watched, ev)
    \/ \E w \in Widgets, local \in PaintTexts, app \in PaintTexts :
           Paint(w, local, app)

Spec == Init /\ [][Next]_vars

(***************************************************************************)
(* SpecNested: widget 1 and widget 2, which lies inside it, are both        *)
(* decorated, in either order; widget 3 is constructed before, between or  *)
(* after the two calls.                                                    *)
(***************************************************************************)
NestedDecorated == {1, 2}

NestedArgs == { [colours |-> [kind |-> "str", v |-> "#aa0000"], opacity |-> 5] }

\* The events tried: every type, the pointer outside widget 1, on the part of
\* widget 1 that widget 2 leaves free and on widget 2.
NestedEvents == {ev \in Events :
                    ev.type \in PositionedTypes
                        => ev.g \in {<<0, 0>>, <<1, 0>>, <<2, 0>>}}

NextNested ==
    \/ \E w \in NestedDecorated, args \in NestedArgs :
           EnableHoverGradient(w, args.colours, args.opacity)
    \/ \E f \in DOMAIN filters, watched \in Widgets, ev \in NestedEvents :
           EventFilter(f, watched, ev)
    \/ \E w \in Widgets : AddChild(w)
    \/ \E watched \in Widgets, ev \in NestedEvents : DeliverUnfiltered(watched, ev)
    \/ \E w \in Widgets : Paint(w, <<"B", ":", "4">>, <<>>)

SpecNested == Init /\ [][NextNested]_vars

(***************************************************************************)
(* SpecRadius: _extract_border_radius on every pair of style texts put     *)
(* together from the fragments below, with and without an application.     *)
(***************************************************************************)
Fragments ==
    { <<"B", ":", "4">>,            \* border-radius:4
      <<"B", " ", ":", " ", "0">>,  \* border-radius : 0
      <<"B", ":", "4", "0">>,       \* border-radius:40
      <<"B", ":", ";">>,            \* border-radius:; (no number)
      <<"B", "4">>,                 \* border-radius4 (no colon)
      <<"B", ":">>,                 \* border-radius: (cut short)
      <<"4">>,                      \* a digit
      <<";">> }                     \* anything else

\* The texts made of at most n fragments.
RECURSIVE Texts(_)
Texts(n) ==
    IF n = 0 THEN {<<>>}
    ELSE LET shorter == Texts(n - 1)
         IN  shorter \cup {t \o f : t \in shorter, f \in Fragments}

InitRadius ==
    /\ life = [w \in Widgets |-> "unborn"]
    /\ attrs = [w \in Widgets |-> NoAttrs]
    /\ paintEvent = [w \in Widgets |-> <<>>]
    /\ filters = <<>>
    /\ eventFilters = [w \in Widgets |-> {}]
    /\ mouseTracking = [w \in Widgets |-> FALSE]
    /\ styledBackground = [w \in Widgets |-> FALSE]
    /\ extractCalls = [w \in Widgets |-> 0]
    /\ last = [op |-> "init"]
    /\ styleIn \in [local : Texts(MaxLocalFrags),
                    appSheets : {<<>>} \cup {<<t>> : t \in Texts(MaxAppFrags)}]
    /\ styleOut = [called |-> FALSE, radius |-> 0]
    /\ IconsIdle

\* One call of _extract_border_radius on the texts of styleIn.
CallExtract ==
    /\ ~styleOut.called
    /\ styleOut' = [called |-> TRUE,
                    radius |-> ExtractBorderRadius(styleIn.local, styleIn.appSheets)]
    /\ UNCHANGED <<hoverVars, last, styleIn, iconVars>>

NextRadius == CallExtract

SpecRadius == InitRadius /\ [][NextRadius]_vars

(***************************************************************************)
(* The Material icon engine (material_icons.py).                           *)
(***************************************************************************)
\* Most reads of one icon file that are counted (the code makes one).
MaxDiskReads == 2

\* The two icon files: name -> markup.  close is in both sets, settings only in the
\* outline set, star only in the filled set.
OutlineFile == [n \in {"close", "settings"} |-> <<"outline", n>>]

FilledFile == [n \in {"close", "star"} |-> <<"filled", n>>]

IconNames == {"close", "settings", "star", "nonexistent_icon_xyz"}

\* Mutant: no memoization, every call reads the file.
CachedLoad_NoCache(entry, file) == [value |-> file, entry |-> <<file>>, reads |-> 1]

\* A function under @lru_cache(): entry is <<>> or <<the value cached>>.  Gives the
\* value, the cache entry afterwards and the number of file reads made.
CachedLoad(entry, file) ==
    IF entry = <<>> THEN [value |-> file, entry |-> <<file>>, reads |-> 1]
    ELSE [value |-> entry[1], entry |-> entry, reads |-> 0]

\* table[id]: the markup, or KeyError.
Subscript(table, id) ==
    IF id \in DOMAIN table THEN [raised |-> "", source |-> <<table[id]>>]
    ELSE [raised |-> "KeyError", source |-> <<>>]

\* Mutant: no fallback, a filled request looks only into the filled set.
MaterialIconSVG_NoFallback(id, filled, c) ==
    LET which == IF filled THEN "filled" ELSE "outline"
        l == CachedLoad(c.cache[which], IF filled THEN FilledFile ELSE OutlineFile)
        r == Subscript(l.value, id)
    IN  [raised |-> r.raised, source |-> r.source,
         cache |-> [c.cache EXCEPT ![which] = l.entry],
         reads |-> [c.reads EXCEPT ![which] = @ + l.reads]]

\* _MaterialIconSVG.__init__(id, filled) with the caches c = [cache, reads]:
\* [raised, source, cache, reads].
MaterialIconSVG(id, filled, c) ==
    LET outline(cc) == CachedLoad(cc.cache.outline, OutlineFile)
        viaOutline(cc) ==
            LET o == outline(cc)
                r == Subscript(o.value, id)
            IN  [raised |-> r.raised, source |-> r.source,
                 cache |-> [cc.cache EXCEPT !.outline = o.entry],
                 reads |-> [cc.reads EXCEPT !.outline = @ + o.reads]]
    IN  IF filled
        THEN LET f  == CachedLoad(c.cache.filled, FilledFile)
                 c1 == [cache |-> [c.cache EXCEPT !.filled = f.entry],
                        reads |-> [c.reads EXCEPT !.filled = @ + f.reads]]
             IN  IF id \notin DOMAIN f.value
                 THEN viaOutline(c1)
                 ELSE LET r == Subscript(f.value, id)
                      IN  [raised |-> r.raised, source |-> r.source,
                           cache |-> c1.cache, reads |-> c1.reads]
        ELSE viaOutline(c)

\* Color.from_rgba(r, g, b, a) and Color.from_hex(hex) of bec_qthemes._color.
FromRgba(rgba) == rgba

FromHex(hex) ==
    CASE hex = "#ff0000" -> <<255, 0, 0, 255>>
      [] hex = "#000000" -> <<0, 0, 0, 255>>

\* Mutant: the disabled mode is not told from the others.
ResolveColor_NoDisabled(color, mode, pal) ==
    IF color.shape = "None" THEN FromRgba(pal.text)
    ELSE CASE color.shape = "str"    -> FromHex(color.hex)
           [] color.shape = "dict"   -> FromRgba(pal.text)
           [] color.shape = "tuple"  -> FromRgba(color.rgba)
           [] color.shape = "QColor" -> FromRgba(color.rgba)
           [] OTHER                  -> FromHex("#000000")

\* The colour of _MaterialIconEngine.paint (lines 67-90).  color is the engine's
\* colour: [shape |-> "None"], or the shape (str, dict, tuple, QColor, anything
\* else) with its value; pal is QGuiApplication.palette().
ResolveColor(color, mode, pal) ==
    IF color.shape = "None"
    THEN IF mode = "Disabled" THEN FromRgba(pal.disabled) ELSE FromRgba(pal.text)
    ELSE CASE color.shape = "str"    -> FromHex(color.hex)
           [] color.shape = "dict"   -> FromRgba(pal.text)
           [] color.shape = "tuple"  -> FromRgba(color.rgba)
           [] color.shape = "QColor" -> FromRgba(color.rgba)
           [] OTHER                  -> FromHex("#000000")

\* Svg.colored(color), Svg.rotate(degrees) and str(svg) of bec_qthemes._icon.svg_util.
Colored(svg, color) == [svg EXCEPT !.color = <<color>>]

Rotate(svg, degrees) == [svg EXCEPT !.rotate = <<degrees>>]

Render(svg) == [source |-> svg.source, fill |-> svg.color, rotate |-> svg.rotate]

\* Mutant: the colour is baked at the first paint and kept by the later ones.
EnginePaint_BakedOnce(engine, mode, pal) ==
    LET svg == IF engine.svg.color = <<>>
               THEN Colored(engine.svg, ResolveColor(engine.color, mode, pal))
               ELSE engine.svg
    IN  [engine |-> [engine EXCEPT !.svg = svg], image |-> Render(svg)]

\* _MaterialIconEngine.paint(painter, rect, mode, state): the engine afterwards and
\* what is rendered.
EnginePaint(engine, mode, pal) ==
    LET svg == Colored(engine.svg, ResolveColor(engine.color, mode, pal))
    IN  [engine |-> [engine EXCEPT !.svg = svg], image |-> Render(svg)]

\* SvgIconEngine.pixmap(size, mode, state) of bec_qthemes._icon.icon_engine: a pixmap
\* of that size painted by the engine's paint.
EnginePixmap(engine, size, mode, pal) ==
    [kind |-> "QPixmap", size |-> size, image |-> EnginePaint(engine, mode, pal).image]

\* Mutant: whatever is not QIcon is rendered as a pixmap.
IconTypeBranch_ElsePixmap(icon_type) ==
    IF icon_type = "QIcon" THEN "handle" ELSE "pixmap"

\* The branch material_icon takes for icon_type (lines 136-146).
IconTypeBranch(icon_type) ==
    CASE icon_type = "QIcon"   -> "handle"
      [] icon_type = "QPixmap" -> "pixmap"
      [] OTHER                 -> "TypeError"

\* The colour arguments tried, one or two of each shape.
ColorSpecs ==
    { [shape |-> "None"],
      [shape |-> "str", hex |-> "#ff0000"],
      [shape |-> "dict", dark |-> "#ffffff", light |-> "#000000"],
      [shape |-> "tuple", rgba |-> <<1, 2, 3, 4>>],
      [shape |-> "tuple", rgba |-> <<1, 2, 3>>],
      [shape |-> "QColor", rgba |-> <<5, 6, 7, 8>>],
      [shape |-> "list", rgba |-> <<9, 9, 9, 9>>] }

\* The requests tried: every name, variant and result kind with the other arguments
\* at their defaults, and every colour, mode, size and rotation for one icon.
Requests ==
    { [icon_name |-> n, filled |-> f, icon_type |-> t, size |-> "None",
       color |-> [shape |-> "None"], rotate |-> 0, mode |-> "None"] :
        n \in IconNames, f \in BOOLEAN, t \in {"QIcon", "QPixmap", "QImage"} }
    \cup
    { [icon_name |-> "close", filled |-> FALSE, icon_type |-> t, size |-> x.size,
       color |-> c, rotate |-> x.rotate, mode |-> m] :
        t \in {"QIcon", "QPixmap", "QImage"}, c \in ColorSpecs,
        m \in {"None", "Disabled"},
        x \in {[size |-> "None", rotate |-> 0], [size |-> <<32, 32>>, rotate |-> 90]} }

\* material_icon(icon_name, size, color, rotate, mode=, filled=, icon_type=)
MaterialIcon(req) ==
    LET made == MaterialIconSVG(req.icon_name, req.filled,
                                [cache |-> iconCache, reads |-> diskReads])
        svg0 == [id |-> req.icon_name, source |-> made.source, color |-> <<>>,
                 rotate |-> <<>>]
        svg  == IF req.rotate # 0 THEN Rotate(svg0, req.rotate) ELSE svg0
        icon == [svg |-> svg, color |-> req.color]
        size == IF req.size = "None" THEN <<50, 50>> ELSE req.size
        branch == IconTypeBranch(req.icon_type)
    IN  /\ diskReads.outline < MaxDiskReads /\ diskReads.filled < MaxDiskReads
        /\ iconCache' = made.cache
        /\ diskReads' = made.reads
        /\ IF made.raised # ""
           THEN /\ handle' = handle
                /\ last' = [op |-> "material_icon", icon_name |-> req.icon_name,
                            filled |-> req.filled, icon_type |-> req.icon_type,
                            raised |-> made.raised, source |-> <<>>,
                            result |-> <<>>]
           ELSE CASE branch = "handle" ->
                     /\ handle' = <<icon>>
                     /\ last' = [op |-> "material_icon", icon_name |-> req.icon_name,
                                 filled |-> req.filled, icon_type |-> req.icon_type,
                                 raised |-> "", source |-> made.source,
                                 result |-> <<[kind |-> "QIcon"]>>]
                  [] branch = "pixmap" ->
                     /\ handle' = handle
                     /\ last' = [op |-> "material_icon", icon_name |-> req.icon_name,
                                 filled |-> req.filled, icon_type |-> req.icon_type,
                                 raised |-> "", source |-> made.source,
                                 result |-> <<EnginePixmap(icon, size, req.mode, palette)>>,
                                 color |-> req.color, mode |-> req.mode]
                  [] OTHER ->
                     /\ handle' = handle
                     /\ last' = [op |-> "material_icon", icon_name |-> req.icon_name,
                                 filled |-> req.filled, icon_type |-> req.icon_type,
                                 raised |-> "TypeError", source |-> made.source,
                                 result |-> <<>>]
        /\ UNCHANGED <<hoverVars, styleIn, styleOut, palette>>

\* The toolkit paints the handle in a mode: QIcon calls its engine's paint.
PaintModes == {"Normal", "Disabled", "Selected"}

PaintIcon(mode) ==
    /\ handle # <<>>
    /\ LET r == EnginePaint(handle[1], mode, palette)
       IN  /\ handle' = <<r.engine>>
           /\ last' = [op |-> "paint_icon", mode |-> mode, color |-> handle[1].color,
                       image |-> r.image, before |-> handle[1].svg.color]
    /\ UNCHANGED <<hoverVars, styleIn, styleOut, iconCache, diskReads, palette>>

\* apply_theme sets the application palette (_main.py, lines 100-101).
Palettes ==
    { [text |-> <<16, 16, 16, 255>>, disabled |-> <<128, 128, 128, 255>>],
      [text |-> <<240, 240, 240, 255>>, disabled |-> <<96, 96, 96, 128>>] }

SetPalette(p) ==
    /\ p # palette
    /\ palette' = p
    /\ last' = [op |-> "setPalette"]
    /\ UNCHANGED <<hoverVars, styleIn, styleOut, iconCache, diskReads, handle>>

(***************************************************************************)
(* SpecIcon: icon requests, paints of the returned handle, palette changes.*)
(***************************************************************************)
InitIcon ==
    /\ life = [w \in Widgets |-> "unborn"]
    /\ attrs = [w \in Widgets |-> NoAttrs]
    /\ paintEvent = [w \in Widgets |-> <<>>]
    /\ filters = <<>>
    /\ eventFilters = [w \in Widgets |-> {}]
    /\ mouseTracking = [w \in Widgets |-> FALSE]
    /\ styledBackground = [w \in Widgets |-> FALSE]
    /\ extractCalls = [w \in Widgets |-> 0]
    /\ last = [op |-> "init"]
    /\ styleIn = [local |-> <<>>, appSheets |-> <<>>]
    /\ styleOut = [called |-> FALSE, radius |-> 0]
    /\ IconsIdle

NextIcon ==
    \/ \E req \in Requests : MaterialIcon(req)
    \/ \E mode \in PaintModes : PaintIcon(mode)
    \/ \E p \in Palettes : SetPalette(p)

SpecIcon == InitIcon /\ [][NextIcon]_vars

(***************************************************************************)
(* Vocabulary of the claims, independent of the definitions above.         *)
(***************************************************************************)
\* The alpha ceiling the paint routine of decorated widget w uses.
AlphaCeilingOf(w) == paintEvent[w][Len(paintEvent[w])].opacity

Clamp(x, lo, hi) == IF x < lo THEN lo ELSE IF x > hi THEN hi ELSE x

\* p, in w's coordinates, lies within w's bounds.
Inside(w, p) == p[1] \in 0..(Width(w) - 1) /\ p[2] \in 0..(Height(w) - 1)

(***************************************************************************)
(* The claims.                                                             *)
(***************************************************************************)
Enabled(a) == HasAttr(a, "_hg_enabled") /\ a["_hg_enabled"]

Count(trace, op) == Cardinality({i \in 1..Len(trace) : trace[i].op = op})

Fills(trace) == {trace[i] : i \in {j \in 1..Len(trace) : trace[j].op = "fillPath"}}

\* C1: a call of enable_hover_gradient on a widget that is already decorated, with
\* any arguments and after any events and paints, changes nothing (hover state,
\* accent stops, captured alpha ceiling, cached radius, listeners); a decorated
\* widget's paint routine is wrapped exactly once and has exactly one listener, and
\* one paint of it is one original draw followed by one overlay composition.
C1_EnableIdempotent ==
    [][ /\ (last'.op = "enable" /\ Enabled(attrs[last'.w]))
            => /\ ~last'.first
               /\ attrs' = attrs /\ paintEvent' = paintEvent
               /\ filters' = filters /\ eventFilters' = eventFilters
               /\ mouseTracking' = mouseTracking
               /\ styledBackground' = styledBackground
               /\ extractCalls' = extractCalls
        /\ \A w \in Widgets : Enabled(attrs'[w])
            => /\ Len(paintEvent'[w]) = 1
               /\ Cardinality({f \in DOMAIN filters' : f[1] = w}) = 1
        /\ (last'.op = "paint" /\ Enabled(attrs'[last'.w]))
            => /\ Count(last'.trace, "original_paint") = 1
               /\ Count(last'.trace, "overlay") = 1
               /\ last'.trace[1].op = "original_paint"
      ]_vars

\* C1 witness: a repeated call on a widget that is hovered, pressed and has its radius
\* cached, with arguments other than those of the first call.
C1_Witness ==
    /\ last.op = "enable" /\ ~last.first
    /\ attrs[last.w]["_hg_hover"] /\ attrs[last.w]["_hg_pressed"]
    /\ HasAttr(attrs[last.w], "_hg_radius")
    /\ AlphaCeilingOf(last.w) # 255 * last.opacity * 10

\* C2: after the listener of a live decorated widget W handled a pointer-move event
\* at P (in W's coordinates): P inside W's bounds gives hovering, pointer = P and a
\* next paint that draws the overlay centred at P; P outside W's bounds gives not
\* hovering and a next paint that draws no overlay.
C2_MoveSetsHover ==
    [][ /\ (last'.op = "eventFilter" /\ last'.ev.type = "MouseMove"
            /\ life'[last'.f[1]] = "live")
            => LET w == last'.f[1]
                   P == MapFromGlobal(w, last'.ev.g)
               IN  IF Inside(w, P)
                   THEN attrs'[w]["_hg_hover"] /\ attrs'[w]["_hg_pos"] = P
                   ELSE ~attrs'[w]["_hg_hover"]
        /\ (last.op = "eventFilter" /\ last.ev.type = "MouseMove"
            /\ life[last.f[1]] = "live"
            /\ last'.op = "paint" /\ last'.w = last.f[1])
            => LET w == last.f[1]
                   P == MapFromGlobal(w, last.ev.g)
               IN  IF Inside(w, P)
                   THEN /\ Fills(last'.trace) # {}
                        /\ \A fill \in Fills(last'.trace) : fill.centre = P
                   ELSE Fills(last'.trace) = {}
      ]_vars

\* C2 witness: a move inside W delivered through a descendant, to the position that
\* was already stored (no repaint requested), with hovering on afterwards.
C2_Witness ==
    /\ last.op = "eventFilter" /\ last.ev.type = "MouseMove"
    /\ life[last.f[1]] = "live"
    /\ last.watched # last.f[1]
    /\ Inside(last.f[1], MapFromGlobal(last.f[1], last.ev.g))
    /\ last.updates = 0
    /\ attrs[last.f[1]]["_hg_hover"]

\* C3 (as claimed): the alpha ceiling kept at the first call is 255 * clamp(opacity,
\* 0, 1) for every multiplier, so it and the centre alpha of every paint lie in
\* [0, 255].
C3_AlphaCeilingClamped ==
    /\ (last.op = "enable" /\ last.first)
        => AlphaCeilingOf(last.w) = 255 * Clamp(last.opacity, 0, 10) * 10
    /\ \A w \in Widgets : \A i \in 1..Len(paintEvent[w]) :
           paintEvent[w][i].opacity \in 0..25500
    /\ last.op = "paint"
        => \A fill \in Fills(last.trace) : fill.stop0.alpha \in 0..25500

\* C4: in every paint that draws the overlay the gradient is centred at the stored
\* pointer; pressed gives radius max(width, height) * 0.6 and centre alpha = the alpha
\* ceiling; not pressed gives radius max(width, height) * 0.9 and centre alpha = the
\* ceiling * 0.6.  The edge colour is accent stop 1 when there is one, otherwise
\* fully transparent.
C4_GradientGeometry ==
    last.op = "paint" =>
        \A fill \in Fills(last.trace) :
            LET w    == last.w
                a    == attrs[w]
                side == IF Width(w) >= Height(w) THEN Width(w) ELSE Height(w)
                cols == a["_hg_cols"]
            IN  /\ fill.centre = a["_hg_pos"]
                /\ fill.stop0.name = cols[1].name
                /\ IF a["_hg_pressed"]
                   THEN /\ fill.radius = side * 6
                        /\ fill.stop0.alpha = AlphaCeilingOf(w)
                   ELSE /\ fill.radius = side * 9
                        /\ 10 * fill.stop0.alpha = 6 * AlphaCeilingOf(w)
                /\ IF Len(cols) >= 2
                   THEN fill.stop1 = cols[2]
                   ELSE fill.stop1.alpha = 0

\* C4 witness: a paint that draws the overlay of a pressed widget with two stops.
C4_Witness ==
    /\ last.op = "paint" /\ Fills(last.trace) # {}
    /\ attrs[last.w]["_hg_pressed"]
    /\ Len(attrs[last.w]["_hg_cols"]) = 2

\* C5: _extract_border_radius is called at most once per decorated widget, at its
\* first paint; a radius once cached never changes and every later paint clips with
\* it, whatever the style texts are at that paint, also when the cached radius is 0.
C5_RadiusMemoized ==
    [][ \A w \in Widgets :
          /\ extractCalls'[w] <= 1
          /\ (extractCalls'[w] = 1) = HasAttr(attrs'[w], "_hg_radius")
          /\ HasAttr(attrs[w], "_hg_radius")
              => /\ HasAttr(attrs'[w], "_hg_radius")
                 /\ attrs'[w]["_hg_radius"] = attrs[w]["_hg_radius"]
                 /\ extractCalls'[w] = extractCalls[w]
          /\ (last'.op = "paint" /\ last'.w = w /\ Enabled(attrs[w]))
              => /\ HasAttr(attrs'[w], "_hg_radius")
                 /\ \A i \in 1..Len(last'.trace) :
                        last'.trace[i].op = "overlay"
                            => last'.trace[i].path.radius = attrs'[w]["_hg_radius"]
      ]_vars

\* C5 witness: a paint that kept a cached radius of 0 although the style text then
\* declared a radius of 4.
C5_Witness ==
    /\ last.op = "paint" /\ Enabled(attrs[last.w])
    /\ attrs[last.w]["_hg_radius"] = 0
    /\ last.local = <<"B", ":", "4">>

\* C7: once the listener's root widget is destroyed and the listener has handled the
\* notification, every event delivered to it, of any type and through any widget, is
\* a no-op: it raises nothing, changes no hover state and requests no repaint; the
\* notification handled again changes nothing.
C7_DeadListenerInert ==
    [][ /\ (last'.op = "eventFilter" /\ life[last'.f[1]] = "dead")
            => /\ ~last'.raised
               /\ last'.updates = 0
               /\ UNCHANGED hoverVars
        /\ (last'.op = "on_dead") => UNCHANGED hoverVars
      ]_vars

\* C7 witness: a pointer-enter delivered through a descendant after the teardown of
\* a widget that was not hovered, and left it so.
C7_Witness ==
    /\ last.op = "eventFilter" /\ life[last.f[1]] = "dead"
    /\ last.ev.type = "Enter"
    /\ last.watched # last.f[1]
    /\ ~attrs[last.f[1]]["_hg_hover"]

\* A corner-radius declaration starts at position i of text t: the word, a colon and
\* a digit, with nothing but whitespace between them.
DeclaredAt(t, i) ==
    /\ t[i] = "B"
    /\ \E c \in (i + 1)..Len(t), d \in (i + 2)..Len(t) :
          /\ c < d
          /\ t[c] = ":"
          /\ t[d] \in {"0", "4"}
          /\ \A k \in (i + 1)..(d - 1) : k # c => t[k] = " "

Declarations(t) == {i \in 1..Len(t) : DeclaredAt(t, i)}

\* The number of the declaration at position i: the digits that follow its colon.
DeclaredValue(t, i) ==
    LET d    == CHOOSE k \in (i + 2)..Len(t) :
                    /\ t[k] \in {"0", "4"}
                    /\ \A j \in (i + 1)..(k - 1) : t[j] \in {":", " "}
        e    == CHOOSE k \in d..Len(t) :
                    /\ \A j \in d..k : t[j] \in {"0", "4"}
                    /\ (k = Len(t) \/ t[k + 1] \notin {"0", "4"})
        pow[n \in 0..Len(t)] == IF n = 0 THEN 1 ELSE 10 * pow[n - 1]
        val(j) == IF t[j] = "4" THEN 4 * pow[e - j] ELSE 0
        sum[j \in d..(e + 1)] == IF j > e THEN 0 ELSE val(j) + sum[j + 1]
    IN  sum[d]

LastDeclared(t) ==
    DeclaredValue(t, CHOOSE i \in Declarations(t) : \A j \in Declarations(t) : j <= i)

\* C6: _extract_border_radius returns the last corner radius declared in the
\* widget-local text when it declares one; otherwise the last one declared in the
\* application-wide text when there is an application and its text declares one;
\* otherwise 0.
C6_LastLocalThenApp ==
    styleOut.called =>
        styleOut.radius =
            IF Declarations(styleIn.local) # {} THEN LastDeclared(styleIn.local)
            ELSE IF styleIn.appSheets # <<>> /\ Declarations(styleIn.appSheets[1]) # {}
                 THEN LastDeclared(styleIn.appSheets[1])
                 ELSE 0

\* C6 witness: a widget-local text with two declarations of different values, the
\* later one returned, and an application-wide text that declares a third value.
C6_Witness ==
    /\ styleOut.called
    /\ styleIn.local = <<"B", ":", "4", "B", " ", ":", " ", "0">>
    /\ styleIn.appSheets = << <<"B", ":", "4", "0">> >>
    /\ styleOut.radius = 0

\* The table a request for (name, filled) ends up consulting.
Consulted(name, filled) ==
    IF filled /\ name \in DOMAIN FilledFile THEN FilledFile ELSE OutlineFile

\* C8: with filled = false the source is the outline table's entry for the name; with
\* filled = true it is the filled table's entry when that table has the name,
\* otherwise the outline table's.  The request fails with KeyError (a LookupError)
\* exactly when the table consulted in the end lacks the name, and then returns
\* nothing.
C8_DescriptorResolution ==
    last.op = "material_icon" =>
        LET table == Consulted(last.icon_name, last.filled)
        IN  IF last.icon_name \in DOMAIN table
            THEN /\ last.raised # "KeyError"
                 /\ last.source = <<table[last.icon_name]>>
                 /\ (last.result # <<>> /\ last.result[1].kind = "QIcon")
                        => handle[1].svg.source = last.source
                 /\ (last.result # <<>> /\ last.result[1].kind = "QPixmap")
                        => last.result[1].image.source = last.source
            ELSE /\ last.raised = "KeyError"
                 /\ last.result = <<>>

\* C8 witness: settings requested filled, which only the outline set has, returned as
\* a handle with the outline markup.
C8_Witness ==
    /\ last.op = "material_icon" /\ last.icon_name = "settings" /\ last.filled
    /\ last.result # <<>> /\ last.result[1].kind = "QIcon"
    /\ handle[1].svg.source = << <<"outline", "settings">> >>

\* C9 (as claimed): every request whose icon_type is neither QIcon nor QPixmap fails
\* with TypeError and returns nothing, whatever its other arguments.
C9_TypeErrorAlways ==
    (last.op = "material_icon" /\ last.icon_type \notin {"QIcon", "QPixmap"})
        => last.raised = "TypeError" /\ last.result = <<>>

\* C9 (amended): a request whose icon_type is neither QIcon nor QPixmap fails with
\* TypeError, returning nothing and no handle, when its name is in the table
\* consulted; when the name is not, the lookup fails first, with KeyError.
C9_TypeErrorAfterLookup ==
    [][ (last'.op = "material_icon" /\ last'.icon_type \notin {"QIcon", "QPixmap"})
            => /\ last'.result = <<>>
               /\ handle' = handle
               /\ last'.raised =
                      IF last'.icon_name
                            \in DOMAIN Consulted(last'.icon_name, last'.filled)
                      THEN "TypeError" ELSE "KeyError"
      ]_vars

\* C9 witness: a TypeError for a filled request served from the outline set.
C9_Witness ==
    /\ last.op = "material_icon" /\ last.raised = "TypeError"
    /\ last.icon_name = "settings" /\ last.filled

\* The colour the claim gives for a colour specification, a mode and a palette.
ClaimedColor(color, mode, pal) ==
    CASE color.shape = "None" /\ mode = "Disabled" -> pal.disabled
      [] color.shape = "None" /\ mode # "Disabled" -> pal.text
      [] color.shape = "str" /\ color.hex = "#ff0000" -> <<255, 0, 0, 255>>
      [] color.shape = "dict" -> pal.text
      [] color.shape \in {"tuple", "QColor"} -> color.rgba
      [] OTHER -> <<0, 0, 0, 255>>

\* C10: the colour applied by a paint of a handle in a mode, and by the rendering of
\* a pixmap, is: without a colour, the palette's disabled text colour in the disabled
\* mode and its text colour in any other mode; the parsed colour for a hex string; the
\* text colour for a per-appearance mapping; the colour itself for a tuple or QColor;
\* opaque black for any other shape.
C10_ColorResolution ==
    /\ last.op = "paint_icon"
        => last.image.fill = <<ClaimedColor(last.color, last.mode, palette)>>
    /\ (last.op = "material_icon" /\ last.result # <<>>
        /\ last.result[1].kind = "QPixmap")
        => last.result[1].image.fill
               = <<ClaimedColor(last.color, last.mode, palette)>>

\* C10 witness: a handle without a colour painted in the disabled mode after the
\* palette was changed, with the new palette's disabled text colour.
C10_Witness ==
    /\ last.op = "paint_icon" /\ last.mode = "Disabled"
    /\ last.color.shape = "None"
    /\ palette.disabled = <<96, 96, 96, 128>>
    /\ last.image.fill = <<palette.disabled>>

\* C11: a handle is mode-reactive.  Every paint of the handle applies the colour that
\* colour resolution gives for that paint's mode and the palette current at that
\* paint, whatever colour an earlier paint of the handle left in it; the paint keeps
\* the handle's colour specification and markup.
C11_HandleModeReactive ==
    [][ last'.op = "paint_icon"
            => /\ last'.image.fill
                      = <<ClaimedColor(handle[1].color, last'.mode, palette')>>
               /\ handle'[1].svg.color = last'.image.fill
               /\ handle'[1].color = handle[1].color
               /\ handle'[1].svg.source = handle[1].svg.source
      ]_vars

\* C11 witness: a handle without a colour, painted before in another mode or under
\* another palette, painted in the normal mode with the current text colour.
C11_Witness ==
    /\ last.op = "paint_icon" /\ last.mode = "Normal"
    /\ last.color.shape = "None"
    /\ last.before # <<>> /\ last.before # last.image.fill
    /\ last.image.fill = <<palette.text>>

\* C12: when the first enable_hover_gradient(W) returns, W and every widget that was
\* below W at that moment, at any depth, has W's one listener installed and mouse
\* tracking on.  The walk is not run again: a widget constructed below W afterwards
\* has no listener and no mouse tracking, and an event delivered only to such a widget
\* changes no hover state.
C12_PropagationCoverage ==
    [][ /\ (last'.op = "enable" /\ last'.first)
            => LET w == last'.w
                   f == attrs'[w]["_hg_filter"]
               IN  /\ filters'[f]._target = w
                   /\ \A d \in Widgets :
                          (d = w \/ (life[d] = "live" /\ IsDescendant(d, w)))
                              => /\ eventFilters'[d] = {f}
                                 /\ mouseTracking'[d]
        /\ ~(last'.op = "enable" /\ last'.first)
            => eventFilters' = eventFilters /\ mouseTracking' = mouseTracking
        /\ last'.op = "addChild"
            => eventFilters'[last'.w] = {} /\ ~mouseTracking'[last'.w]
        /\ last'.op = "deliver" => attrs' = attrs
      ]_vars

\* C12 witness: with widget 1 decorated and not hovered, widget 3 constructed below it
\* afterwards has no listener and no mouse tracking, and a pointer-enter inside widget
\* 1's bounds was delivered to widget 3 only.
C12_Witness ==
    /\ last.op = "deliver" /\ last.w = 3 /\ last.ev.type = "Enter"
    /\ Enabled(attrs[1]) /\ ~attrs[1]["_hg_hover"]
    /\ eventFilters[2] # {} /\ eventFilters[3] = {} /\ ~mouseTracking[3]
    /\ Inside(1, MapFromGlobal(1, last.ev.g))

\* C13: every paint of a decorated widget, in every hover state, runs the widget's
\* pre-attachment paint routine exactly once, with the paint event of that paint, and
\* to its end before anything of the overlay; the overlay comes after it, never before
\* it or in its place.
C13_OriginalThenOverlay ==
    (last.op = "paint" /\ Enabled(attrs[last.w]))
        => /\ Len(last.trace) >= 2
           /\ last.trace[1] = [op |-> "original_paint", event |-> last.event]
           /\ last.trace[2].op = "overlay"
           /\ \A i \in 2..Len(last.trace) :
                  last.trace[i].op \in {"overlay", "fillPath"}

\* C13 witness: a paint of a decorated widget that is pressed but not hovered, for
\* which the overlay fills nothing.
C13_Witness ==
    /\ last.op = "paint" /\ Enabled(attrs[last.w])
    /\ ~attrs[last.w]["_hg_hover"] /\ attrs[last.w]["_hg_pressed"]
    /\ Fills(last.trace) = {}
    /\ last.trace[1].op = "original_paint"

\* The never-entered sentinel of the pointer, QPoint(-1, -1).
Sentinel == <<-1, -1>>

\* C14: a paint of a decorated widget draws the hover overlay if and only if hovering
\* is true and the pointer is not the never-entered sentinel; so a paint before any
\* pointer event draws none, and a press handled while hovering is false sets pressed
\* and leaves hovering and the pointer as they were, so that no overlay appears.
C14_OverlayIffHovering ==
    [][ /\ (last'.op = "paint" /\ Enabled(attrs[last'.w]))
            => LET a == attrs[last'.w]
               IN  (Fills(last'.trace) # {})
                       <=> (a["_hg_hover"] /\ a["_hg_pos"] # Sentinel)
        /\ (last'.op = "eventFilter" /\ last'.ev.type = "MouseButtonPress"
            /\ life'[last'.f[1]] = "live")
            => LET w == last'.f[1]
               IN  /\ attrs'[w]["_hg_pressed"]
                   /\ attrs'[w]["_hg_hover"] = attrs[w]["_hg_hover"]
                   /\ attrs'[w]["_hg_pos"] = attrs[w]["_hg_pos"]
      ]_vars

\* C14 witness: a paint of a decorated widget that was pressed without the pointer
\* ever having entered it, drawing no overlay.
C14_Witness ==
    /\ last.op = "paint" /\ Enabled(attrs[last.w])
    /\ attrs[last.w]["_hg_pressed"] /\ ~attrs[last.w]["_hg_hover"]
    /\ attrs[last.w]["_hg_pos"] = Sentinel
    /\ Fills(last.trace) = {}

\* The hover state of widget w: hovering, pressed and the pointer.
HoverStateOf(a) == <<a["_hg_hover"], a["_hg_pressed"], a["_hg_pos"]>>

\* C15 (as claimed): every event handled by the listener of a live decorated widget
\* that changes hovering, pressed or the pointer requests a repaint of the root widget
\* within the same event handling.
C15_ChangeRequestsRepaint ==
    [][ (/\ last'.op = "eventFilter"
         /\ life'[last'.f[1]] = "live"
         /\ HoverStateOf(attrs'[last'.f[1]]) # HoverStateOf(attrs[last'.f[1]]))
            => last'.updates >= 1
      ]_vars

\* C16 (as claimed): after a pointer-enter or an inside pointer-move handled by the
\* listener of live decorated widget W, delivered to W or to a descendant of W, the
\* pointer is the event's pointer location in W's own coordinates.
C16_PointerInRootCoordinates ==
    [][ (/\ last'.op = "eventFilter"
         /\ life'[last'.f[1]] = "live"
         /\ \/ last'.ev.type = "Enter"
            \/ /\ last'.ev.type = "MouseMove"
               /\ Inside(last'.f[1], MapFromGlobal(last'.f[1], last'.ev.g)))
            => attrs'[last'.f[1]]["_hg_pos"]
                   = MapFromGlobal(last'.f[1], last'.ev.g)
      ]_vars

\* C17 (as claimed): after every pointer-enter, pointer-leave or pointer-move handled
\* by the listener of live decorated widget W, delivered to W or to a covered
\* descendant, hovering(W) is true exactly when the pointer is inside W's bounds; the
\* pointer leaving a descendant while it stays inside W leaves hovering(W) true.
C17_HoveringIffInside ==
    [][ (/\ last'.op = "eventFilter"
         /\ life'[last'.f[1]] = "live"
         /\ last'.ev.type \in {"Enter", "Leave", "MouseMove"})
            => (attrs'[last'.f[1]]["_hg_hover"]
                    <=> Inside(last'.f[1], MapFromGlobal(last'.f[1], last'.ev.g)))
      ]_vars

\* Filter f is installed on widget x.
Covers(f, x) == f \in eventFilters[x]

\* C18: with several decorated widgets alive, one nested in the other, the listener
\* made for widget W writes only W's attributes and requests repaints only of W; an
\* event delivered to a widget that is neither W nor was below W when W was decorated
\* changes nothing of W (hovering, pressed, pointer, cached radius); a paint of one
\* widget changes no other widget's cached radius.
C18_PerWidgetIsolation ==
    [][ /\ last'.op = "eventFilter"
            => /\ \A d \in Widgets \ {last'.f[1]} : attrs'[d] = attrs[d]
               /\ last'.repainted \subseteq {last'.f[1]}
        /\ \A W \in Widgets :
              LET x == IF last'.op = "eventFilter" THEN last'.watched ELSE last'.w
              IN  (/\ last'.op \in {"eventFilter", "deliver"}
                   /\ Enabled(attrs[W])
                   /\ \/ (x # W /\ ~IsDescendant(x, W))
                      \/ ~Covers(attrs[W]["_hg_filter"], x))
                      => attrs'[W] = attrs[W]
        /\ last'.op = "paint"
            => \A d \in Widgets \ {last'.w} :
                  /\ attrs'[d] = attrs[d]
                  /\ extractCalls'[d] = extractCalls[d]
      ]_vars

\* C18 witness: widgets 1 and 2 are both decorated; widget 2 is hovered and has its
\* radius cached, widget 1 has none cached; a pointer-leave delivered to widget 1
\* cleared widget 1's hovering and requested a repaint of widget 1 alone.
C18_Witness ==
    /\ last.op = "eventFilter" /\ last.watched = 1 /\ last.ev.type = "Leave"
    /\ last.repainted = {1}
    /\ Enabled(attrs[1]) /\ Enabled(attrs[2])
    /\ ~attrs[1]["_hg_hover"] /\ attrs[2]["_hg_hover"]
    /\ HasAttr(attrs[2], "_hg_radius") /\ ~HasAttr(attrs[1], "_hg_radius")

\* The tables a request for (name, filled) consults, and the icon file of each table.
ConsultedTables(name, filled) ==
    IF ~filled THEN {"outline"}
    ELSE IF name \in DOMAIN FilledFile THEN {"filled"} ELSE {"filled", "outline"}

FileOf(t) == IF t = "filled" THEN FilledFile ELSE OutlineFile

\* C19: neither table is read from disk before the first request that consults it; a
\* request with filled = false never loads the filled table; a table once loaded is
\* never read from disk again and keeps its mapping, which is the one every later
\* lookup sees.
C19_CatalogLoadOnce ==
    [][ /\ \A t \in {"outline", "filled"} :
              /\ diskReads'[t] <= 1
              /\ (iconCache'[t] = <<>>) <=> (diskReads'[t] = 0)
              /\ diskReads'[t] # diskReads[t]
                  => /\ last'.op = "material_icon"
                     /\ t \in ConsultedTables(last'.icon_name, last'.filled)
                     /\ diskReads[t] = 0
              /\ iconCache[t] # <<>>
                  => iconCache'[t] = iconCache[t] /\ diskReads'[t] = diskReads[t]
        /\ last'.op = "material_icon"
            => /\ \A t \in ConsultedTables(last'.icon_name, last'.filled) :
                      iconCache'[t] = <<FileOf(t)>>
               /\ ~last'.filled
                      => /\ iconCache'.filled = iconCache.filled
                         /\ diskReads'.filled = diskReads.filled
               /\ last'.source # <<>>
                      => \E t \in ConsultedTables(last'.icon_name, last'.filled) :
                            /\ last'.icon_name \in DOMAIN iconCache'[t][1]
                            /\ last'.source = <<iconCache'[t][1][last'.icon_name]>>
      ]_vars

\* C19 witness: a second request served from the outline table after one read of its
\* file, the filled table never having been loaded.
C19_Witness ==
    /\ last.op = "material_icon" /\ ~last.filled /\ last.icon_type = "QPixmap"
    /\ last.raised = "" /\ handle # <<>>
    /\ diskReads = [outline |-> 1, filled |-> 0]
    /\ iconCache.filled = <<>>

\* C20: the listener never consumes an event.  For every event type, every watched
\* widget and every state, the target live or torn down, eventFilter returns without
\* raising and reports the event as not handled (False).
C20_NeverConsumes ==
    last.op = "eventFilter" => (~last.raised /\ last.ret = FALSE)

\* C20 witness: a press delivered through a descendant to the listener of a live
\* widget, which changed the hover state and asked for a repaint, reported as not
\* handled.
C20_Witness ==
    /\ last.op = "eventFilter" /\ last.ev.type = "MouseButtonPress"
    /\ last.watched # last.f[1]
    /\ life[last.f[1]] = "live"
    /\ last.updates = 1 /\ ~last.raised /\ last.ret = FALSE

====
